---- MODULE Spec2Model ----
(***************************************************************************)
(* A model of the file-format converter backend.                           *)
(*                                                                         *)
(*   src/backend/main.py       the FastAPI service: upload_file (Submit),  *)
(*                             get_status (Query), download_file           *)
(*                             (Retrieve) and its own FileConverter.       *)
(*   src/backend/converter.py  the desktop FileConverter library.          *)
(*                                                                         *)
(* Spec     is the service of main.py.                                     *)
(* FairSpec is Spec with weak fairness of the handlers.                    *)
(* LibSpec  calls process_conversion of either FileConverter class         *)
(*          directly on a stored input file.                               *)
(*                                                                         *)
(* Strings that are matched by substring (task identifiers, file stems)    *)
(* are sequences of one-character strings.  File extensions and target     *)
(* formats are strings; lower() and upper() are the tables Lower and Upper.*)
(* A stored file name f"{file_id}_{stem}.{ext}" is the record              *)
(* [id, stem, ext]; NameChars gives its characters.                        *)
(***************************************************************************)
EXTENDS Integers, Sequences, FiniteSets, TLC

VARIABLES
    caps,       \* main.py   HAS_FITZ, HAS_PPTX (set once at import)
    convcaps,   \* converter.py HAS_PDF2DOCX, HAS_COMTYPES, os.name == 'nt'
    inflight,   \* upload_file requests suspended at `await file.read()`
    tasks,      \* main.py   tasks = {}  : file_id -> record
    uploads,    \* names of the files in UPLOAD_DIR
    downloads,  \* names of the files in DOWNLOAD_DIR
    resp,       \* the response of the handler that returned last
    returned    \* LibSpec: input name -> what process_conversion returned

vars == <<caps, convcaps, inflight, tasks, uploads, downloads, resp, returned>>

----------------------------------------------------------------------------
(* Bounds *)

\* Number of uploads that are accepted (written to UPLOAD_DIR) or in flight.
MaxSubmits == 2

\* Number of direct process_conversion calls in LibSpec.
MaxCalls == 2

\* Number of pages of a PDF input.
MaxPages == 2

----------------------------------------------------------------------------
(* Strings *)

\* str.lower() on the extensions and target formats of the model.
Lower(s) ==
    CASE s = "PDF"  -> "pdf"
      [] s = "PNG"  -> "png"
      [] s = "JPEG" -> "jpeg"
      [] s = "Docx" -> "docx"
      [] OTHER      -> s

\* str.upper() on the target formats of the model.
Upper(s) ==
    CASE s = "pdf"  -> "PDF"
      [] s = "png"  -> "PNG"
      [] s = "jpg"  -> "JPG"
      [] s = "jpeg" -> "JPEG"
      [] s = "gif"  -> "GIF"
      [] s = "docx" -> "DOCX"
      [] s = "pptx" -> "PPTX"
      [] s = "txt"  -> "TXT"
      [] OTHER      -> s

\* str(i) of a page number.
Digit(i) == CASE i = 1 -> "1" [] i = 2 -> "2" [] i = 3 -> "3" [] OTHER -> "9"

\* sub occurs in s as a contiguous substring.
Contains(s, sub) ==
    \E i \in 0..(Len(s) - Len(sub)) :
        \A j \in 1..Len(sub) : s[i + j] = sub[j]

\* The characters of the stored name f"{id}_{stem}.{ext}".
NameChars(f) ==
    (IF f.id = <<>> THEN <<>> ELSE f.id \o <<"_">>) \o f.stem \o <<".", f.ext>>

----------------------------------------------------------------------------
(* Values *)

\* uuid4 strings: distinct, all of one length.
Ids == {<<"a", "b">>, <<"b", "a">>, <<"b", "b">>}

NoId == <<>>

\* task_id path parameters a client may send: any string.
QueryIds == Ids \cup {<<"a">>}

NoName == [id |-> NoId, stem |-> <<>>, ext |-> ""]

NoMsg == [exc |-> "", a |-> "", b |-> ""]

\* 4 * 1024 * 1024, the Vercel Hobby limit.
MAX_BYTES == 4 * 1024 * 1024

\* How the codecs fare on an uploaded content:
\*   good        they decode it and write the output;
\*   unreadable  the decoder (Image.open, fitz.open) raises;
\*   midwrite    the encoder raises after it has opened the output path.
Kinds == {"good", "unreadable", "midwrite"}

----------------------------------------------------------------------------
(* Results of process_conversion *)

\* `return output_path`: the strategy that ran, the path it returned, the
\* codecs called and the files left in the download directory.
Return(strategy, path, codecs, wrote) ==
    [raised |-> FALSE, error |-> NoMsg, strategy |-> strategy, path |-> path,
     codecs |-> codecs, wrote |-> wrote]

\* `raise e` out of process_conversion; strategy is "" when none was chosen.
Raise(strategy, error, codecs, wrote) ==
    [raised |-> TRUE, error |-> error, strategy |-> strategy, path |-> NoName,
     codecs |-> codecs, wrote |-> wrote]

\* str(e) of the exception a codec raises.
CodecError(codec) == [exc |-> "CodecError", a |-> codec, b |-> ""]

\* An encoder writing the files `wrote` and returning `path`: it returns, or
\* it raises with its output begun.  Neither FileConverter removes a file
\* after an exception.
Encode(strategy, path, wrote, codecs, kind) ==
    IF kind = "midwrite"
    THEN Raise(strategy, CodecError("save"), codecs \cup {"save"}, wrote)
    ELSE Return(strategy, path, codecs \cup {"save"}, wrote)

----------------------------------------------------------------------------
(* main.py : FileConverter *)

IMAGE_EXTS == {"png", "jpg", "jpeg"}

\* The format names Image.save accepts among the targets of the model;
\* any other name raises KeyError before the output file is opened.
PIL_SAVE == {"PNG", "JPEG", "GIF", "PDF"}

\* pill_fmt without the jpg -> JPEG renaming.
pill_fmt_upper(target) == Upper(target)

\* pill_fmt of main.py line 56.
pill_fmt(target) ==
    IF Lower(target) \in {"jpg", "jpeg"} THEN "JPEG" ELSE Upper(target)

\* ValueError(f"Conversion from {input_ext} to {target_format} is not
\* supported on cloud. ...")
NotOnCloud(input_ext, target) ==
    [exc |-> "ValueError", a |-> input_ext, b |-> target]

\* KeyError(fmt) of Image.save for a format name it does not know.
UnknownFormat(fmt) == [exc |-> "KeyError", a |-> fmt, b |-> ""]

\* FileConverter.process_conversion of main.py.  input is the stored input
\* name, c the capability flags, kind how the codecs fare on the content.
main_process_conversion(input, target, c, kind) ==
    LET input_ext == Lower(input.ext)
        t         == Lower(target)
        out       == [id |-> input.id, stem |-> input.stem, ext |-> t]
    IN  IF input_ext \in IMAGE_EXTS
        THEN IF kind = "unreadable"
             THEN Raise("", CodecError("Image.open"), {"Image.open"}, {})
             ELSE IF t = "pdf"
             THEN Encode("image_to_pdf", out, {out}, {"Image.open"}, kind)
             ELSE IF t = "pptx" /\ c.pptx
             THEN Encode("image_to_pptx", out, {out},
                         {"Image.open", "Presentation"}, kind)
             ELSE IF pill_fmt(target) \in PIL_SAVE
             THEN Encode("image_format", out, {out}, {"Image.open"}, kind)
             ELSE Raise("image_format", UnknownFormat(pill_fmt(target)),
                        {"Image.open", "save"}, {})
        ELSE IF input_ext = "pdf" /\ c.fitz
        THEN IF kind = "unreadable"
             THEN Raise("", CodecError("fitz.open"), {"fitz.open"}, {})
             ELSE IF t \in {"png", "jpg", "jpeg"}
             THEN Encode("pdf_to_images", out, {out},
                         {"fitz.open", "get_pixmap"}, kind)
             ELSE IF t = "pptx" /\ c.pptx
             THEN Encode("pdf_to_pptx", out, {out},
                         {"fitz.open", "get_pixmap", "Presentation"}, kind)
             ELSE Raise("", NotOnCloud(input_ext, target), {"fitz.open"}, {})
        ELSE Raise("", NotOnCloud(input_ext, target), {}, {})

----------------------------------------------------------------------------
(* converter.py : FileConverter *)

\* ImportError("... is not supported on this platform. ...")
NotOnPlatform(what) == [exc |-> "ImportError", a |-> what, b |-> ""]

\* ValueError(f"Unsupported conversion: {input_ext} to {target_format}")
Unsupported(input_ext, target) ==
    [exc |-> "ValueError", a |-> input_ext, b |-> target]

\* download_dir / f"page_{i}.{format}" of convert_pdf_to_images.
PageName(i, format) ==
    [id |-> NoId, stem |-> <<"page_", Digit(i)>>, ext |-> format]

\* A strategy of converter.py that opens the input and writes output_path.
conv_strategy(strategy, out, kind) ==
    IF kind = "unreadable"
    THEN Raise(strategy, CodecError("open"), {"open"}, {})
    ELSE Encode(strategy, out, {out}, {"open"}, kind)

\* FileConverter.process_conversion of converter.py.  cc holds the flags
\* HAS_PDF2DOCX, HAS_COMTYPES and os.name == 'nt'; pages is the number of
\* pages of a PDF input.
conv_process_conversion(input, target, cc, kind, pages) ==
    LET input_ext == Lower(input.ext)
        t         == Lower(target)
        out       == [id |-> input.id, stem |-> input.stem, ext |-> t]
    IN  IF input_ext = "pdf" /\ t = "docx"
        THEN IF ~cc.pdf2docx
             THEN Raise("convert_pdf_to_docx", NotOnPlatform("PDF to DOCX"),
                        {}, {})
             ELSE conv_strategy("convert_pdf_to_docx", out, kind)
        ELSE IF input_ext = "pdf" /\ t = "pptx"
        THEN conv_strategy("convert_pdf_to_pptx", out, kind)
        ELSE IF input_ext = "pdf" /\ t \in {"png", "jpg", "jpeg"}
        THEN IF kind = "unreadable"
             THEN Raise("convert_pdf_to_images", CodecError("open"),
                        {"open"}, {})
             ELSE Encode("convert_pdf_to_images", PageName(1, t),
                         {PageName(i, t) : i \in 1..pages}, {"open"}, kind)
        ELSE IF input_ext = "docx" /\ t = "pdf"
        THEN IF ~cc.nt
             THEN Raise("convert_docx_to_pdf", NotOnPlatform("DOCX to PDF"),
                        {}, {})
             ELSE conv_strategy("convert_docx_to_pdf", out, kind)
        ELSE IF input_ext \in {"pptx", "ppt"} /\ t = "pdf"
        THEN IF ~cc.comtypes
             THEN Raise("convert_pptx_to_pdf", NotOnPlatform("PPTX to PDF"),
                        {}, {})
             ELSE conv_strategy("convert_pptx_to_pdf", out, kind)
        ELSE IF input_ext \in IMAGE_EXTS /\ t = "pdf"
        THEN conv_strategy("convert_image_to_pdf", out, kind)
        ELSE IF input_ext \in IMAGE_EXTS /\ t = "pptx"
        THEN conv_strategy("convert_image_to_pptx", out, kind)
        ELSE IF input_ext \in IMAGE_EXTS
        THEN IF kind = "unreadable"
             THEN Raise("convert_image_format", CodecError("open"),
                        {"open"}, {})
             ELSE IF pill_fmt(target) \in PIL_SAVE
             THEN Encode("convert_image_format", out, {out}, {"open"}, kind)
             ELSE Raise("convert_image_format",
                        UnknownFormat(Upper(target)), {"open", "save"}, {})
        ELSE Raise("", Unsupported(input_ext, target), {}, {})

----------------------------------------------------------------------------
(* main.py : the task registry and the handlers *)

\* The size check with >= for >.
TooLarge_inclusive(size) == size >= MAX_BYTES

\* len(content) > 4 * 1024 * 1024
TooLarge(size) == size > MAX_BYTES

\* tasks[file_id] = {"status": "completed", "output_file": ..., ...}
CompletedRecord(output_file, target) ==
    [status |-> "completed", output_file |-> output_file,
     target_format |-> target]

\* A failed record that keeps a fixed text instead of str(e).
FailedRecord_generic(error) ==
    [status |-> "failed",
     error |-> [exc |-> "", a |-> "Conversion failed", b |-> ""]]

\* tasks[file_id] = {"status": "failed", "error": str(e)}
FailedRecord(error) == [status |-> "failed", error |-> error]

\* The registry replaced by the new record instead of extended with it.
Put_replace(t, file_id, record) == [i \in {file_id} |-> record]

\* tasks[file_id] = record
Put(t, file_id, record) ==
    [i \in DOMAIN t \cup {file_id} |-> IF i = file_id THEN record ELSE t[i]]

\* A response: the handler, the identifier it was asked about or returns,
\* the HTTP status code, and the body's status, file and detail.
Response(op, id, code, status, file, detail) ==
    [op |-> op, id |-> id, code |-> code, status |-> status,
     file |-> file, detail |-> detail]

NoResponse == Response("none", NoId, 0, "", NoName, NoMsg)

\* The uploads of Spec: original file names, target formats, how the codecs
\* fare on the content, and payload sizes at and just over the ceiling (one
\* oversized request: all of them are handled alike).
Sizes == {MAX_BYTES, MAX_BYTES + 1}

Filenames ==
    { [stem |-> <<"x">>, ext |-> "png"],
      [stem |-> <<"a", "b">>, ext |-> "PDF"] }

Targets == {"PNG", "pptx"}

Requests ==
    { r \in [size : Sizes, filename : Filenames, target : Targets, kind : Kinds] :
        r.size > MAX_BYTES =>
            /\ r.filename.ext = "png"
            /\ r.target = "PNG"
            /\ r.kind = "good" }

\* upload_file up to `content = await file.read()`: the request is suspended
\* there and other handlers run.
SubmitRead(r) ==
    /\ Cardinality(inflight) + Cardinality(uploads) < MaxSubmits
    /\ r \notin inflight
    /\ inflight' = inflight \cup {r}
    /\ UNCHANGED <<caps, convcaps, tasks, uploads, downloads, resp, returned>>

\* upload_file from the size check to its return: no await, one step.
SubmitProcess(r, file_id) ==
    /\ r \in inflight
    /\ file_id \notin {u.id : u \in uploads}
    /\ inflight' = inflight \ {r}
    /\ IF TooLarge(r.size)
       THEN /\ resp' = Response("upload", NoId, 413, "", NoName, NoMsg)
            /\ UNCHANGED <<tasks, uploads, downloads>>
       ELSE LET input == [id |-> file_id, stem |-> r.filename.stem,
                          ext |-> r.filename.ext]
                res   == main_process_conversion(input, r.target, caps, r.kind)
            IN  /\ uploads' = uploads \cup {input}
                /\ downloads' = downloads \cup res.wrote
                /\ IF res.raised
                   THEN /\ tasks' = Put(tasks, file_id, FailedRecord(res.error))
                        /\ resp' = Response("upload", NoId, 500, "", NoName,
                                            res.error)
                   ELSE /\ tasks' = Put(tasks, file_id,
                                        CompletedRecord(res.path, r.target))
                        /\ resp' = Response("upload", file_id, 200,
                                            "completed", NoName, NoMsg)
    /\ UNCHANGED <<caps, convcaps, returned>>

\* get_status
Query(task_id) ==
    /\ resp' = IF task_id \in DOMAIN tasks
               THEN LET rec == tasks[task_id]
                    IN  IF rec.status = "completed"
                        THEN Response("status", task_id, 200, rec.status,
                                      rec.output_file, NoMsg)
                        ELSE Response("status", task_id, 200, rec.status,
                                      NoName, rec.error)
               ELSE Response("status", task_id, 200, "completed", NoName, NoMsg)
    /\ UNCHANGED <<caps, convcaps, inflight, tasks, uploads, downloads,
                   returned>>

\* DOWNLOAD_DIR.glob(f"*{task_id}*")
Glob(dir, task_id) == {f \in dir : Contains(NameChars(f), task_id)}

\* download_file; files[0] is any of the matches (directory order).
Retrieve(task_id) ==
    /\ LET files == Glob(downloads, task_id)
       IN  IF files = {}
           THEN resp' =
                IF task_id \in DOMAIN tasks
                THEN IF "output_file" \notin DOMAIN tasks[task_id]
                     THEN Response("download", task_id, 500, "", NoName,
                                   [exc |-> "KeyError", a |-> "output_file",
                                    b |-> ""])
                     ELSE IF tasks[task_id].output_file \in downloads
                     THEN Response("download", task_id, 200, "",
                                   tasks[task_id].output_file, NoMsg)
                     ELSE Response("download", task_id, 404, "", NoName, NoMsg)
                ELSE Response("download", task_id, 404, "", NoName, NoMsg)
           ELSE \E f \in files :
                    resp' = Response("download", task_id, 200, "", f, NoMsg)
    /\ UNCHANGED <<caps, convcaps, inflight, tasks, uploads, downloads,
                   returned>>

NoConvCaps == [pdf2docx |-> FALSE, comtypes |-> FALSE, nt |-> FALSE]

Init ==
    /\ caps \in [fitz : BOOLEAN, pptx : BOOLEAN]
    /\ convcaps = NoConvCaps
    /\ inflight = {}
    /\ tasks = <<>>
    /\ uploads = {}
    /\ downloads = {}
    /\ resp = NoResponse
    /\ returned = <<>>

Next ==
    \/ \E r \in Requests : SubmitRead(r)
    \/ \E r \in Requests, file_id \in Ids : SubmitProcess(r, file_id)
    \/ \E task_id \in QueryIds : Query(task_id)
    \/ \E task_id \in QueryIds : Retrieve(task_id)

Spec == Init /\ [][Next]_vars
----------------------------------------------------------------------------
(* process_conversion called directly *)

NoCaps == [fitz |-> FALSE, pptx |-> FALSE]

\* What a caller of process_conversion keeps of one call.
Call(impl, target, kind, pages, res) ==
    [impl |-> impl, target |-> target, kind |-> kind, pages |-> pages,
     res |-> res]

\* RouteSpec: one call of either process_conversion on one stored input,
\* over the extensions, targets and capability flags below.
RouteExts ==
    {"pdf", "PDF", "Docx", "docx", "pptx", "ppt", "png", "jpg", "JPEG",
     "txt", ""}

RouteTargets ==
    {"pdf", "docx", "pptx", "png", "PNG", "jpg", "jpeg", "gif", "txt"}

RouteInit ==
    /\ caps \in [fitz : BOOLEAN, pptx : BOOLEAN]
    /\ convcaps \in [pdf2docx : BOOLEAN, comtypes : BOOLEAN, nt : BOOLEAN]
    /\ inflight = {}
    /\ tasks = <<>>
    /\ uploads \in {{[id |-> <<"a", "b">>, stem |-> <<"x">>, ext |-> e]} :
                        e \in RouteExts}
    /\ downloads = {}
    /\ resp = NoResponse
    /\ returned = <<>>

\* converter.process_conversion(input_filename, target_format), main.py's
RouteMain(input, target, kind) ==
    /\ input \in uploads
    /\ input \notin DOMAIN returned
    /\ LET res == main_process_conversion(input, target, caps, kind)
       IN  /\ downloads' = downloads \cup res.wrote
           /\ returned' = Put(returned, input, Call("main", target, kind, 1, res))
    /\ UNCHANGED <<caps, convcaps, inflight, tasks, uploads, resp>>

\* converter.process_conversion(input_filename, target_format), converter.py's
RouteConv(input, target, kind, pages) ==
    /\ input \in uploads
    /\ input \notin DOMAIN returned
    /\ LET res == conv_process_conversion(input, target, convcaps, kind, pages)
       IN  /\ downloads' = downloads \cup res.wrote
           /\ returned' = Put(returned, input,
                              Call("conv", target, kind, pages, res))
    /\ UNCHANGED <<caps, convcaps, inflight, tasks, uploads, resp>>

RouteNext ==
    \/ \E input \in uploads, target \in RouteTargets, kind \in Kinds :
           RouteMain(input, target, kind)
    \/ \E input \in uploads, target \in RouteTargets, kind \in Kinds,
          pages \in 1..MaxPages :
           RouteConv(input, target, kind, pages)

RouteSpec == RouteInit /\ [][RouteNext]_vars

\* LibSpec: a caller stores inputs under fresh identifiers and converts each
\* with converter.py's FileConverter, all in one download directory.
LibFilenames ==
    { [stem |-> <<"x">>, ext |-> "PDF"],
      [stem |-> <<"y">>, ext |-> "pdf"],
      [stem |-> <<"x">>, ext |-> "docx"] }

LibTargets == {"png", "pdf"}

LibInit ==
    /\ caps = NoCaps
    /\ convcaps \in [pdf2docx : {FALSE}, comtypes : {FALSE}, nt : BOOLEAN]
    /\ inflight = {}
    /\ tasks = <<>>
    /\ uploads = {}
    /\ downloads = {}
    /\ resp = NoResponse
    /\ returned = <<>>

LibConvert(file_id, filename, target, kind, pages) ==
    /\ Cardinality(uploads) < MaxCalls
    /\ file_id \notin {u.id : u \in uploads}
    /\ LET input == [id |-> file_id, stem |-> filename.stem,
                     ext |-> filename.ext]
           res   == conv_process_conversion(input, target, convcaps, kind,
                                            pages)
       IN  /\ uploads' = uploads \cup {input}
           /\ downloads' = downloads \cup res.wrote
           /\ returned' = Put(returned, input,
                              Call("conv", target, kind, pages, res))
    /\ UNCHANGED <<caps, convcaps, inflight, tasks, resp>>

LibNext ==
    \E file_id \in Ids, filename \in LibFilenames, target \in LibTargets,
       kind \in Kinds, pages \in 1..MaxPages :
        LibConvert(file_id, filename, target, kind, pages)

LibSpec == LibInit /\ [][LibNext]_vars

\* The handlers are served for as long as the process runs.
FairSpec == Spec /\ WF_vars(Next)

----------------------------------------------------------------------------
(* Claims about the service (Spec) *)

Statuses == {"pending", "processing", "completed", "failed"}

\* The status of t's record, "none" when the registry has no record of t.
StatusOf(t) == IF t \in DOMAIN tasks THEN tasks[t].status ELSE "none"

\* C1 as stated: every change of a task's status is one step along
\* (no record) -> pending -> processing -> completed | failed.
C1_StatusSequence ==
    [][\A t \in Ids :
         StatusOf(t)' # StatusOf(t) =>
             <<StatusOf(t), StatusOf(t)'>> \in
                 { <<"none", "pending">>, <<"pending", "processing">>,
                   <<"processing", "completed">>, <<"processing", "failed">> }
      ]_vars

\* C1 as amended: a record is created in one step, as completed or failed
\* (never pending or processing), and a record that exists never changes.
C1_CreatedTerminal ==
    [][\A t \in Ids :
         /\ t \in DOMAIN tasks =>
                t \in DOMAIN tasks' /\ tasks'[t] = tasks[t]
         /\ t \in DOMAIN tasks' => tasks'[t].status \in {"completed", "failed"}
      ]_vars

\* C1 witness: one task ended completed and another failed.
C1_Witness ==
    \E t1, t2 \in DOMAIN tasks :
        tasks[t1].status = "completed" /\ tasks[t2].status = "failed"

\* C2: Query on an identifier without a record answers with an outcome that
\* is none of the task statuses.
C2_NotFound ==
    (resp.op = "status" /\ resp.id \notin DOMAIN tasks) =>
        resp.status \notin Statuses

\* C4: the file Retrieve hands back for a task's identifier A is the one
\* produced for A, never one stored for another task B.
C4_OwnArtifact ==
    (resp.op = "download" /\ resp.code = 200 /\ resp.id \in DOMAIN tasks) =>
        resp.file.id = resp.id

\* C5: Retrieve hands back a file only for an identifier whose record is
\* completed and whose output file exists.
C5_OnlyCompleted ==
    (resp.op = "download" /\ resp.code = 200) =>
        /\ resp.id \in DOMAIN tasks
        /\ tasks[resp.id].status = "completed"
        /\ tasks[resp.id].output_file = resp.file
        /\ resp.file \in downloads

\* The names a task's output can have.
OutputNames ==
    { [id |-> i, stem |-> n.stem, ext |-> Lower(t)] :
        i \in Ids, n \in Filenames, t \in Targets }

\* C6: once Retrieve has handed off a task's output, the task's input and
\* output files are eventually deleted.
C6_Reclaimed ==
    \A f \in OutputNames :
        (resp.op = "download" /\ resp.code = 200 /\ resp.file = f)
            ~> (f \notin downloads /\ \A u \in uploads : u.id # f.id)

\* C8: when the conversion of an upload raises, upload_file answers with its
\* own 500 response, the task's record is failed with the exception's
\* message and no output file name, and no other record changes.
C8_FailureRecorded ==
    [][\A r \in inflight \ inflight', u \in uploads' \ uploads :
         LET res == main_process_conversion(u, r.target, caps, r.kind)
         IN  res.raised =>
                 /\ u.id \in DOMAIN tasks'
                 /\ tasks'[u.id].status = "failed"
                 /\ tasks'[u.id].error = res.error
                 /\ "output_file" \notin DOMAIN tasks'[u.id]
                 /\ resp'.op = "upload" /\ resp'.code = 500
                 /\ resp'.detail = res.error
                 /\ \A t \in DOMAIN tasks : tasks'[t] = tasks[t]
      ]_vars

\* C8 witness: an upload has just failed while another task's record exists.
C8_Witness ==
    \E t1, t2 \in DOMAIN tasks :
        /\ tasks[t1].status = "failed"
        /\ tasks[t2].status = "completed"
        /\ resp.op = "upload" /\ resp.code = 500
        /\ resp.detail = tasks[t1].error

\* The size ceiling of C9, 4 MiB in bytes.
Ceiling == 4194304

\* C9: an upload over the ceiling is answered 413 with no identifier and
\* changes neither the registry nor the directories; an upload of exactly
\* the ceiling is accepted and stored.
C9_SizeCeiling ==
    [][\A r \in inflight \ inflight' :
         /\ r.size > Ceiling =>
                /\ resp'.op = "upload" /\ resp'.code = 413 /\ resp'.id = NoId
                /\ tasks' = tasks
                /\ uploads' = uploads
                /\ downloads' = downloads
         /\ r.size = Ceiling =>
                /\ resp'.code # 413
                /\ Cardinality(uploads') = Cardinality(uploads) + 1
                /\ Cardinality(DOMAIN tasks') = Cardinality(DOMAIN tasks) + 1
      ]_vars

\* C9 witness: an upload of exactly the ceiling was stored and an upload
\* over the ceiling has just been rejected.
C9_Witness ==
    /\ uploads # {}
    /\ resp.op = "upload" /\ resp.code = 413

\* C10: no file produced for a failed task is in the download directory.
C10_NoPartialOutput ==
    \A t \in DOMAIN tasks :
        tasks[t].status = "failed" => \A f \in downloads : f.id # t
----------------------------------------------------------------------------
(* Claims about process_conversion (RouteSpec, LibSpec) *)

\* The routing table's source and target kinds, compared case-insensitively.
FormatKind(x) ==
    LET l == Lower(x)
    IN  CASE l = "pdf"                   -> "pdf"
          [] l = "docx"                  -> "doc"
          [] l \in {"png", "jpg", "jpeg"} -> "image"
          [] OTHER                       -> "other"

SourceKind(ext) ==
    IF Lower(ext) \in {"pptx", "ppt"} THEN "deck" ELSE FormatKind(ext)

TargetKind(target) ==
    IF Lower(target) = "pptx" THEN "deck" ELSE FormatKind(target)

\* The encoding of a raster-image format: jpg and jpeg are one encoding.
Encoding(x) == IF Lower(x) \in {"jpg", "jpeg"} THEN "jpeg" ELSE Lower(x)

\* The capabilities of the routing table as each module holds them:
\* converter.py imports fitz and pptx unconditionally; main.py has neither
\* an office-doc-builder nor an office bridge.
Rasterizer(call)   == call.impl = "conv" \/ caps.fitz
SlideBuilder(call) == call.impl = "conv" \/ caps.pptx
DocBuilder(call)   == call.impl = "conv" /\ convcaps.pdf2docx
OfficeBridge(call, source) ==
    /\ call.impl = "conv"
    /\ IF source = "doc" THEN convcaps.nt ELSE convcaps.comtypes

\* The pair is a row of the routing table and the row's capability is there.
TableSupports(input, call) ==
    LET s == SourceKind(input.ext)
        t == TargetKind(call.target)
    IN  \/ s = "pdf"   /\ t = "doc"   /\ DocBuilder(call)
        \/ s = "pdf"   /\ t = "deck"  /\ Rasterizer(call)
        \/ s = "pdf"   /\ t = "image" /\ Rasterizer(call)
        \/ s = "doc"   /\ t = "pdf"   /\ OfficeBridge(call, s)
        \/ s = "deck"  /\ t = "pdf"   /\ OfficeBridge(call, s)
        \/ s = "image" /\ t = "pdf"
        \/ s = "image" /\ t = "deck"  /\ SlideBuilder(call)
        \/ s = "image" /\ t = "image"
              /\ Encoding(input.ext) # Encoding(call.target)

\* The call ran a strategy to its end (on content the codecs can handle).
RanStrategy(call) ==
    call.kind = "good" => ~call.res.raised /\ call.res.strategy # ""

\* The call reported the pair unsupported before any codec was called.
ReportedUnsupported(call) ==
    /\ call.res.raised
    /\ call.res.error.exc \in {"ValueError", "ImportError"}
    /\ call.res.codecs = {}
    /\ call.res.wrote = {}

\* C3 as stated: a strategy runs exactly for the rows of the routing table
\* whose capability is present; every other triple is reported unsupported
\* without any codec being called.
C3_RoutingTable ==
    \A input \in DOMAIN returned :
        LET call == returned[input]
        IN  IF TableSupports(input, call)
            THEN RanStrategy(call)
            ELSE ReportedUnsupported(call)

\* The targets a raster-image source is converted to besides pdf and pptx:
\* every name the image encoder knows, the source's own encoding included.
EncoderTargets == {"png", "jpg", "jpeg", "gif"}

\* The routing the two modules implement.
CodeSupports(input, call) ==
    LET s == SourceKind(input.ext)
        t == TargetKind(call.target)
    IN  \/ s = "pdf"   /\ t = "doc"   /\ DocBuilder(call)
        \/ s = "pdf"   /\ t = "deck"  /\ Rasterizer(call) /\ SlideBuilder(call)
        \/ s = "pdf"   /\ t = "image" /\ Rasterizer(call)
        \/ s = "doc"   /\ t = "pdf"   /\ OfficeBridge(call, s)
        \/ s = "deck"  /\ t = "pdf"   /\ OfficeBridge(call, s)
        \/ s = "image" /\ t = "pdf"
        \/ s = "image" /\ t = "deck"  /\ SlideBuilder(call)
        \/ s = "image" /\ Lower(call.target) \in EncoderTargets

\* The source is opened before the target is looked at: every raster image,
\* and in main.py every PDF when the rasterizer is present.
OpenedFirst(input, call) ==
    \/ SourceKind(input.ext) = "image"
    \/ call.impl = "main" /\ SourceKind(input.ext) = "pdf" /\ caps.fitz

\* C3 as amended: a strategy runs exactly when CodeSupports; every other
\* triple raises, before any codec is called unless the source is opened
\* first, and for a readable raster image with the image encoder's KeyError
\* for the target name instead of an unsupported report.
C3_CodeRouting ==
    \A input \in DOMAIN returned :
        LET call == returned[input]
        IN  IF CodeSupports(input, call)
            THEN RanStrategy(call)
            ELSE /\ call.res.raised
                 /\ call.res.wrote = {}
                 /\ ~OpenedFirst(input, call) => ReportedUnsupported(call)
                 /\ OpenedFirst(input, call) => call.res.codecs # {}
                 /\ (SourceKind(input.ext) = "image" /\ call.kind # "unreadable")
                        => call.res.error.exc = "KeyError"

\* C3 witness: a raster image was converted although the pair is no row of
\* the routing table (a target such as gif, or the source's own encoding).
C3_Witness ==
    \E input \in DOMAIN returned :
        LET call == returned[input]
        IN  /\ SourceKind(input.ext) = "image"
            /\ call.kind = "good"
            /\ ~call.res.raised
            /\ ~TableSupports(input, call)

\* C7: two conversions of different inputs return different output paths and
\* write no file in common.
C7_SeparateOutputs ==
    \A i1, i2 \in DOMAIN returned :
        (i1 # i2 /\ ~returned[i1].res.raised /\ ~returned[i2].res.raised) =>
            /\ returned[i1].res.path # returned[i2].res.path
            /\ returned[i1].res.wrote \cap returned[i2].res.wrote = {}

====
